---- MODULE Spec2Model ----
(***************************************************************************)
(* Model of elephant/rep.py: the binned spike train class binned_st, its   *)
(* parameter resolution (calc_tstart, calc_tstop, calc_num_bins,           *)
(* calc_binsize), its consistency checks, the conversion of spike times to *)
(* bin indices, the clipped / unclipped matrices and the operators + - +=  *)
(* -=.                                                                     *)
(*                                                                         *)
(* Times are whole numbers of ticks of one common unit.  A bin size is a   *)
(* rational <<num, den>>: a caller's bin size b is <<b, 1>>, the bin size  *)
(* calc_binsize derives is <<t_stop - t_start, num_bins>>.  den = 0 with   *)
(* num # 0 is the float inf, num = 0 with den = 0 is nan (numpy's results  *)
(* of a division by zero).  An optional argument is << >> for None.        *)
(***************************************************************************)
EXTENDS Integers, Sequences, FiniteSets, TLC

VARIABLES A, B, R, call

vars == <<A, B, R, call>>

\* ------------------------------------------------------------------ bounds
MaxTime == 2
MaxSpikes == 2
MaxBinsize == 2

\* ------------------------------------------------------------- Python values
None == << >>
Some(v) == <<v>>
IsNone(o) == Len(o) = 0

\* a num_bins argument whose type is not int (the float 2.5)
NonInt == <<2, 5>>
IsInt(o) == Len(o) = 1

Abs(a) == IF a < 0 THEN -a ELSE a

\* Python's int() of the real a / b, b # 0: truncation toward zero
TruncDiv(a, b) ==
  LET q == Abs(a) \div Abs(b)
  IN IF (a < 0) = (b < 0) THEN q ELSE -q

\* bool() of an optional number: None and 0 are false
Truthy(o) == Len(o) > 0 /\ o[1] # 0

\* bool() of an optional bin size: None and the quantity 0 are false,
\* inf and nan are true
TruthyQ(b) == Len(b) > 0 /\ ~(b[1] = 0 /\ b[2] # 0)

\* the float x / binsize is finite (neither inf nor nan)
FiniteQuot(x, b) == b[1] # 0

\* int((x / binsize).magnitude) for a finite quotient
QuotInt(x, b) == TruncDiv(x * b[2], b[1])

RECURSIVE SeqMax(_)
SeqMax(s) ==
  IF Len(s) = 1 THEN s[1]
  ELSE LET m == SeqMax(Tail(s)) IN IF s[1] > m THEN s[1] ELSE m

RECURSIVE SeqMin(_)
SeqMin(s) ==
  IF Len(s) = 1 THEN s[1]
  ELSE LET m == SeqMin(Tail(s)) IN IF s[1] < m THEN s[1] ELSE m

\* ------------------------------------------------- parameter calculation
\* num_bins * binsize in ticks.  The bin sizes that reach calc_tstart and
\* calc_tstop are a caller's <<b, 1>> or the <<t_stop - t_start, num_bins>>
\* derived for this num_bins: the product is a whole number of ticks.
Product(num_bins, binsize) == (num_bins * binsize[1]) \div binsize[2]

calc_tstart(num_bins, binsize, t_stop) ==
  IF ~IsNone(num_bins) /\ ~IsNone(binsize) /\ ~IsNone(t_stop)
  THEN Some(t_stop[1] - Product(num_bins[1], binsize))
  ELSE None

\* a faulty calc_tstop, which steps back from t_start
calc_tstop_back(num_bins, binsize, t_start) ==
  IF ~IsNone(num_bins) /\ ~IsNone(binsize) /\ ~IsNone(t_start)
  THEN Some(t_start[1] - Product(num_bins[1], binsize))
  ELSE None

calc_tstop(num_bins, binsize, t_start) ==
  IF ~IsNone(num_bins) /\ ~IsNone(binsize) /\ ~IsNone(t_start)
  THEN Some(t_start[1] + Product(num_bins[1], binsize))
  ELSE None

\* [err, val]: err is "OrderingError" (t_stop < t_start), "FloatError" (int()
\* of inf or nan) or "none"
calc_num_bins(binsize, t_start, t_stop) ==
  IF ~IsNone(binsize) /\ ~IsNone(t_start) /\ ~IsNone(t_stop)
  THEN IF t_stop[1] < t_start[1]
       THEN [err |-> "OrderingError", val |-> None]
       ELSE IF ~FiniteQuot(t_stop[1] - t_start[1], binsize)
       THEN [err |-> "FloatError", val |-> None]
       ELSE [err |-> "none",
             val |-> Some(QuotInt(t_stop[1] - t_start[1], binsize))]
  ELSE [err |-> "none", val |-> None]

calc_binsize(num_bins, t_start, t_stop) ==
  IF ~IsNone(num_bins) /\ ~IsNone(t_start) /\ ~IsNone(t_stop)
  THEN IF t_stop[1] < t_start[1]
       THEN [err |-> "OrderingError", val |-> None]
       ELSE [err |-> "none", val |-> <<t_stop[1] - t_start[1], num_bins[1]>>]
  ELSE [err |-> "none", val |-> None]

set_start_stop_from_input(spiketrains) ==
  <<SeqMax([i \in 1..Len(spiketrains) |-> spiketrains[i].t_start]),
    SeqMin([i \in 1..Len(spiketrains) |-> spiketrains[i].t_stop])>>

\* ------------------------------------------------------------ constructor
\* self during construction: the four parameters (optional) and
\* matrix_columns
count_params(self) ==
  LET param_count ==
        (IF Truthy(self.t_start) THEN 1 ELSE 0)
      + (IF Truthy(self.t_stop) THEN 1 ELSE 0)
      + (IF TruthyQ(self.binsize) THEN 1 ELSE 0)
      + (IF Truthy(self.num_bins) THEN 1 ELSE 0)
  IN ~(param_count < 3)

calc_start_stop(self, spiketrains) ==
  IF count_params(self) = FALSE
  THEN LET s1 == IF IsNone(self.t_stop)
                 THEN [self EXCEPT
                         !.t_start = Some(set_start_stop_from_input(spiketrains)[1])]
                 ELSE self
       IN IF IsNone(s1.t_stop)
          THEN [s1 EXCEPT
                  !.t_stop = Some(set_start_stop_from_input(spiketrains)[2])]
          ELSE s1
  ELSE self

\* [err, self]
check_init_params(self, binsize, num_bins, t_start, t_stop) ==
  IF IsNone(binsize) /\ IsNone(t_start) /\ IsNone(t_stop) /\ IsNone(num_bins)
  THEN [err |-> "NoArgumentsError", self |-> self]
  ELSE IF ~IsNone(num_bins) /\ ~IsInt(num_bins)
  THEN [err |-> "TypeError", self |-> self]
  ELSE IF IsNone(t_start)
  THEN [err |-> "none",
        self |-> [self EXCEPT !.t_start = calc_tstart(num_bins, binsize, t_stop)]]
  ELSE IF IsNone(t_stop)
  THEN [err |-> "none",
        self |-> [self EXCEPT !.t_stop = calc_tstop(num_bins, binsize, t_start)]]
  ELSE IF IsNone(num_bins)
  THEN LET r == calc_num_bins(binsize, t_start, t_stop)
       IN [err |-> r.err,
           self |-> [self EXCEPT !.num_bins = r.val,
                                 !.matrix_columns =
                                    IF IsNone(self.matrix_columns) THEN r.val
                                    ELSE self.matrix_columns]]
  ELSE IF IsNone(binsize)
  THEN LET r == calc_binsize(num_bins, t_start, t_stop)
       IN [err |-> r.err, self |-> [self EXCEPT !.binsize = r.val]]
  ELSE [err |-> "none", self |-> self]


\* the rules of __check_consistency, on the resolved parameters
max_tstart(spiketrains) == set_start_stop_from_input(spiketrains)[1]
min_tstop(spiketrains) == set_start_stop_from_input(spiketrains)[2]

DisjointIntervals(spiketrains) == max_tstart(spiketrains) >= min_tstop(spiketrains)

StartOutOfRange(t_start, spiketrains) ==
  t_start < max_tstart(spiketrains) \/ t_start > min_tstop(spiketrains)

InconsistentParameters(binsize, num_bins, t_start, t_stop) ==
  num_bins # QuotInt(t_stop - t_start, binsize)

StopTooLarge(t_start, t_stop, spiketrains) ==
  ~(t_start < t_stop /\ t_stop <= min_tstop(spiketrains))

NonIntegerBinCount(num_bins) == num_bins < 0

StopOutOfRange(t_stop, spiketrains) ==
  t_stop > min_tstop(spiketrains) \/ t_stop < max_tstart(spiketrains)

\* a faulty last rule, which lets every bin count pass
EmptyRange_never(matrix_columns, num_bins) == FALSE

EmptyRange(matrix_columns, num_bins) == matrix_columns < 1 \/ num_bins < 1

\* the error __check_consistency raises, "none" if it returns
check_consistency(self, spiketrains) ==
  IF count_params(self) = FALSE THEN "InsufficientParametersError"
  ELSE IF DisjointIntervals(spiketrains) THEN "DisjointIntervalsError"
  ELSE IF StartOutOfRange(self.t_start[1], spiketrains)
  THEN "StartOutOfRangeError"
  ELSE IF ~FiniteQuot(self.t_stop[1] - self.t_start[1], self.binsize)
  THEN "FloatError"
  ELSE IF InconsistentParameters(self.binsize, self.num_bins[1],
                                 self.t_start[1], self.t_stop[1])
  THEN "InconsistentParametersError"
  ELSE IF StopTooLarge(self.t_start[1], self.t_stop[1], spiketrains)
  THEN "StopTooLargeError"
  ELSE IF NonIntegerBinCount(self.num_bins[1]) THEN "NonIntegerBinCountError"
  ELSE IF StopOutOfRange(self.t_stop[1], spiketrains) THEN "StopOutOfRangeError"
  ELSE IF EmptyRange(self.matrix_columns[1], self.num_bins[1])
  THEN "EmptyRangeError"
  ELSE "none"

\* ----------------------------------------------------------- bin assignment
\* a faulty index, which counts bins from 1
BinIndex_from1(t, t_start, binsize) == QuotInt(t - t_start, binsize) + 1

\* the index of the spike at time t
BinIndex(t, t_start, binsize) == QuotInt(t - t_start, binsize)

\* a faulty filter, which keeps the index num_bins
KeepIndex_le(idx, num_bins) == idx <= num_bins

\* idx_filled < self.num_bins
KeepIndex(idx, num_bins) == idx < num_bins

RECURSIVE SelectKept(_, _)
SelectKept(idxs, num_bins) ==
  IF Len(idxs) = 0 THEN << >>
  ELSE IF KeepIndex(Head(idxs), num_bins)
       THEN <<Head(idxs)>> \o SelectKept(Tail(idxs), num_bins)
       ELSE SelectKept(Tail(idxs), num_bins)

\* one row of filled: the kept indices of one spike train, in its order
BinRow(times, t_start, binsize, num_bins) ==
  SelectKept([k \in 1..Len(times) |-> BinIndex(times[k], t_start, binsize)],
             num_bins)

convert_to_binned(spiketrains, t_start, binsize, num_bins) ==
  [i \in 1..Len(spiketrains) |->
     BinRow(spiketrains[i].times, t_start, binsize, num_bins)]

\* ------------------------------------------------------------- the instance
NoObj == [exists |-> FALSE]

\* the instance __init__ leaves when no check raised.  replaced is no
\* attribute: it records that filled was assigned after the construction.
NewInstance(self, spiketrains, store_mat) ==
  [exists |-> TRUE,
   lst_input |-> spiketrains,
   t_start |-> self.t_start[1],
   t_stop |-> self.t_stop[1],
   num_bins |-> self.num_bins[1],
   binsize |-> self.binsize,
   matrix_columns |-> self.matrix_columns[1],
   matrix_rows |-> Len(spiketrains),
   store_mat_c |-> store_mat,
   store_mat_u |-> store_mat,
   mat_c |-> None,
   mat_u |-> None,
   matrix_col |-> None,
   has_new_class |-> FALSE,
   nested |-> FALSE,
   replaced |-> FALSE,
   filled |-> convert_to_binned(spiketrains, self.t_start[1], self.binsize,
                                self.num_bins[1])]

\* __init__ from the call of __check_consistency on: e is its error
InitChecked(self, e, spiketrains, store_mat) ==
  IF e # "none" THEN [err |-> e, obj |-> NoObj]
  ELSE [err |-> "none", obj |-> NewInstance(self, spiketrains, store_mat)]

\* __init__ from the return of __check_init_params on: r is its result
InitResolved(r, spiketrains, store_mat) ==
  IF r.err # "none" THEN [err |-> r.err, obj |-> NoObj]
  ELSE InitChecked(r.self, check_consistency(r.self, spiketrains),
                   spiketrains, store_mat)

\* __init__ from the return of __calc_start_stop on
InitStarted(self, binsize, num_bins, spiketrains, store_mat) ==
  InitResolved(check_init_params(self, binsize, num_bins, self.t_start,
                                 self.t_stop),
               spiketrains, store_mat)

\* binned_st(spiketrains, binsize, num_bins, t_start, t_stop, store_mat):
\* [err, obj]
binned_st(spiketrains, binsize, num_bins, t_start, t_stop, store_mat) ==
  InitStarted(calc_start_stop([t_start |-> t_start, t_stop |-> t_stop,
                               num_bins |-> num_bins, binsize |-> binsize,
                               matrix_columns |-> num_bins],
                              spiketrains),
              binsize, num_bins, spiketrains, store_mat)

\* ----------------------------------------------------------------- matrices
Zeros(rows, cols) == [r \in 1..rows |-> [c \in 1..cols |-> 0]]

\* numpy accepts the column index i of a row of cols cells: negative indices
\* count from the end
ValidIndex(i, cols) == -cols <= i /\ i < cols
Column(i, cols) == IF i < 0 THEN cols + i + 1 ELSE i + 1

RowsOf(mat) == Len(mat)
ColsOf(mat) == IF Len(mat) = 0 THEN 0 ELSE Len(mat[1])

\* mat[elem_idx, elem] = 1 succeeds: elem_idx is a row of mat (elem_idx counts
\* from 0) and every index of elem is a column
CanIndex(mat, elem_idx, elem) ==
  /\ elem_idx < RowsOf(mat)
  /\ \A k \in 1..Len(elem) : ValidIndex(elem[k], ColsOf(mat))

\* mat[elem_idx, elem] = 1
SetOnes(mat, elem_idx, elem) ==
  [mat EXCEPT ![elem_idx + 1] =
     [c \in 1..ColsOf(mat) |->
        IF \E k \in 1..Len(elem) : Column(elem[k], ColsOf(mat)) = c
        THEN 1 ELSE mat[elem_idx + 1][c]]]

\* mat[elem_idx, elem] += 1 with an index array: every distinct column once
AddOnes(mat, elem_idx, elem) ==
  [mat EXCEPT ![elem_idx + 1] =
     [c \in 1..ColsOf(mat) |->
        IF \E k \in 1..Len(elem) : Column(elem[k], ColsOf(mat)) = c
        THEN mat[elem_idx + 1][c] + 1 ELSE mat[elem_idx + 1][c]]]

\* mat[elem_idx, inner_elem] += 1 with the integer inner_elem
AddOne(mat, elem_idx, inner_elem) ==
  [mat EXCEPT ![elem_idx + 1][Column(inner_elem, ColsOf(mat))] = @ + 1]

RECURSIVE Flatten(_)
\* the concatenation of the sequences of a sequence
Flatten(ss) == IF Len(ss) = 0 THEN << >> ELSE Head(ss) \o Flatten(Tail(ss))

\* the elements enumerate(self.filled) yields.  A nested filled (the result
\* of + on operands of several rows) holds two lists of rows: such a list,
\* used as an index, is a two-dimensional index array when its rows have one
\* length, and no index otherwise.
Elems(self) == self.filled
ElemLen(self, elem) == Len(elem)
Ragged(elem) == \E i, j \in 1..Len(elem) : Len(elem[i]) # Len(elem[j])

\* the loop of matrix_clipped over the elements from position k on, on the
\* matrix mat: [err, mat]
RECURSIVE ClippedLoop(_, _, _)
ClippedLoop(self, mat, k) ==
  IF k > Len(Elems(self)) THEN [err |-> "none", mat |-> mat]
  ELSE LET elem == Elems(self)[k]
           idx == IF self.nested THEN Flatten(elem) ELSE elem
       IN IF Len(elem) = 0 THEN ClippedLoop(self, mat, k + 1)
          ELSE IF (self.nested /\ Ragged(elem)) \/ ~CanIndex(mat, k - 1, idx)
          THEN [err |-> "ColumnIndexError", mat |-> mat]
          ELSE ClippedLoop(self, SetOnes(mat, k - 1, idx), k + 1)

\* the first pass of the loop of the stored branch of matrix_clipped, which
\* returns at the end of its first pass: [err, mat, returned]
ClippedFirst(self, mat) ==
  IF Len(Elems(self)) = 0 THEN [err |-> "none", mat |-> mat, returned |-> FALSE]
  ELSE LET elem == Elems(self)[1]
           idx == IF self.nested THEN Flatten(elem) ELSE elem
       IN IF Len(elem) = 0
          THEN [err |-> "none", mat |-> mat, returned |-> TRUE]
          ELSE IF (self.nested /\ Ragged(elem)) \/ ~CanIndex(mat, 0, idx)
          THEN [err |-> "ColumnIndexError", mat |-> mat, returned |-> FALSE]
          ELSE [err |-> "none", mat |-> SetOnes(mat, 0, idx), returned |-> TRUE]

\* matrix_clipped(**kwargs): kw is None or Some(store_mat).
\* [err, ret, self]: ret is None when the method returns no matrix
matrix_clipped(self, kw) ==
  LET s1 == IF IsNone(kw) THEN self ELSE [self EXCEPT !.store_mat_c = kw[1]]
  IN IF ~IsNone(s1.mat_c)
     THEN [err |-> "none", ret |-> s1.mat_c, self |-> s1]
     ELSE IF s1.store_mat_c
     THEN LET r == ClippedFirst(s1, Zeros(s1.matrix_rows, s1.matrix_columns))
          IN [err |-> r.err,
              ret |-> IF r.returned THEN Some(r.mat) ELSE None,
              self |-> [s1 EXCEPT !.mat_c = Some(r.mat)]]
     ELSE LET r == ClippedLoop(s1, Zeros(s1.matrix_rows, s1.matrix_columns), 1)
          IN [err |-> r.err,
              ret |-> IF r.err = "none" THEN Some(r.mat) ELSE None,
              self |-> s1]

\* for inner_elem in elem: mat[elem_idx, inner_elem] += 1, from position j
\* on: [err, mat]; the cells counted before an error stay counted
RECURSIVE CountInner(_, _, _, _, _)
CountInner(nested, mat, elem_idx, elem, j) ==
  IF j > Len(elem) THEN [err |-> "none", mat |-> mat]
  ELSE IF nested
  THEN IF ~CanIndex(mat, elem_idx, elem[j])
       THEN [err |-> "ColumnIndexError", mat |-> mat]
       ELSE CountInner(nested, AddOnes(mat, elem_idx, elem[j]), elem_idx,
                       elem, j + 1)
  ELSE IF ~CanIndex(mat, elem_idx, <<elem[j]>>)
       THEN [err |-> "ColumnIndexError", mat |-> mat]
       ELSE CountInner(nested, AddOne(mat, elem_idx, elem[j]), elem_idx,
                       elem, j + 1)

\* the loop of matrix_unclipped from position k on: [err, mat].  ondemand
\* is the branch that indexes with elem[0] when elem has one element.
RECURSIVE UnclippedLoop(_, _, _, _)
UnclippedLoop(self, mat, k, ondemand) ==
  IF k > Len(Elems(self)) THEN [err |-> "none", mat |-> mat]
  ELSE LET elem == Elems(self)[k]
           r == IF ondemand /\ ~(Len(elem) > 1)
                THEN CountInner(self.nested, mat, k - 1, <<elem[1]>>, 1)
                ELSE CountInner(self.nested, mat, k - 1, elem, 1)
       IN IF Len(elem) = 0 THEN UnclippedLoop(self, mat, k + 1, ondemand)
          ELSE IF r.err # "none" THEN r
          ELSE UnclippedLoop(self, r.mat, k + 1, ondemand)

\* a faulty matrix_unclipped, which counts on top of the stored matrix
\* instead of returning it
matrix_unclipped_again(self, kw) ==
  LET s1 == IF IsNone(kw) THEN self ELSE [self EXCEPT !.store_mat_u = kw[1]]
      mat == IF IsNone(s1.mat_u)
             THEN Zeros(s1.matrix_rows, s1.matrix_columns)
             ELSE s1.mat_u[1]
      r == UnclippedLoop(s1, mat, 1, ~s1.store_mat_u)
  IN [err |-> r.err,
      ret |-> IF r.err = "none" THEN Some(r.mat) ELSE None,
      self |-> IF s1.store_mat_u THEN [s1 EXCEPT !.mat_u = Some(r.mat)] ELSE s1]

matrix_unclipped(self, kw) ==
  LET s1 == IF IsNone(kw) THEN self ELSE [self EXCEPT !.store_mat_u = kw[1]]
  IN IF ~IsNone(s1.mat_u)
     THEN [err |-> "none", ret |-> s1.mat_u, self |-> s1]
     ELSE IF s1.store_mat_u
     THEN LET r == UnclippedLoop(s1, Zeros(s1.matrix_rows, s1.matrix_columns),
                                 1, FALSE)
          IN [err |-> r.err,
              ret |-> IF r.err = "none" THEN Some(r.mat) ELSE None,
              self |-> [s1 EXCEPT !.mat_u = Some(r.mat)]]
     ELSE LET r == UnclippedLoop(s1, Zeros(s1.matrix_rows, s1.matrix_columns),
                                 1, TRUE)
          IN [err |-> r.err,
              ret |-> IF r.err = "none" THEN Some(r.mat) ELSE None,
              self |-> s1]

\* ------------------------------------------------------ algebraic operators
\* the dummy neo.SpikeTrain([] * pq.s, t_stop=stop) of create_class
DummyTrain(stop) == [t_start |-> 0, t_stop |-> stop, times |-> << >>]

\* create_class once the constructor returned r
ClassCreated(r, mat_row, mat_col) ==
  IF r.err # "none" THEN r
  ELSE [err |-> "none",
        obj |-> [r.obj EXCEPT !.filled = << >>,
                              !.matrix_rows = mat_row,
                              !.matrix_col = Some(mat_col)]]

\* create_class(start, stop, binsize, mat_row, mat_col): [err, obj]
create_class(start, stop, binsize, mat_row, mat_col) ==
  ClassCreated(binned_st(<<DummyTrain(stop)>>, binsize, None, Some(start),
                         Some(stop), FALSE),
               mat_row, mat_col)

\* len(self.filled)
FilledLen(self) == Len(self.filled)

\* __add__ once create_class returned r
AddFilled(r, self, other) ==
  IF r.err # "none" THEN r
  ELSE IF FilledLen(self) > 1 \/ FilledLen(other) > 1
  THEN [err |-> "none",
        obj |-> [r.obj EXCEPT !.filled = <<self.filled, other.filled>>,
                              !.nested = TRUE]]
  ELSE [err |-> "none",
        obj |-> [r.obj EXCEPT !.filled =
                                 <<Flatten(self.filled) \o Flatten(other.filled)>>]]

\* self + other: [err, obj]
add(self, other) ==
  AddFilled(create_class(self.t_start, self.t_stop, self.binsize,
                         self.matrix_rows, self.matrix_columns),
            self, other)

\* the parameters __iadd__ and __isub__ copy to the new instance
SetMissing(new_self, self) ==
  [new_self EXCEPT !.binsize = self.binsize, !.t_start = self.t_start,
                   !.t_stop = self.t_stop, !.num_bins = self.num_bins]

\* __iadd__ and __isub__ once __add__ or __sub__ returned r
MissingSet(r, self) ==
  IF r.err # "none" THEN r ELSE [r EXCEPT !.obj = SetMissing(r.obj, self)]

iadd(self, other) == MissingSet(add(self, other), self)

Range(s) == {s[k] : k \in 1..Len(s)}

RECURSIVE SortedSeq(_)
\* the elements of the set S of integers in increasing order
SortedSeq(S) ==
  IF S = {} THEN << >>
  ELSE LET m == CHOOSE v \in S : \A w \in S : v <= w
       IN <<m>> \o SortedSeq(S \ {m})

\* the elements in exactly one of the two rows, each once
SetXor(s, o) ==
  SortedSeq((Range(s) \ Range(o)) \cup (Range(o) \ Range(s)))

Min2(a, b) == IF a < b THEN a ELSE b

\* the row of __sub__ on operands of one row: zeros when no index is left
SubRow(d, self) ==
  IF Len(d) = 0 THEN [k \in 1..Len(self.filled[1]) |-> 0] ELSE d

\* the instance of __sub__ with its shape set
Shaped(n, self) ==
  [n EXCEPT !.matrix_columns = self.matrix_columns,
            !.matrix_rows = self.matrix_rows]

\* a faulty __sub__, which takes the indices away in self and returns an
\* instance without them
SubFilled_inplace(r, self, other) ==
  IF r.err # "none" THEN [err |-> r.err, obj |-> NoObj, self |-> self]
  ELSE [err |-> "none",
        obj |-> Shaped(r.obj, self),
        self |-> [self EXCEPT !.filled =
                    [k \in 1..Min2(FilledLen(self), FilledLen(other)) |->
                       SetXor(self.filled[k], other.filled[k])]]]

\* __sub__ once create_class returned r: [err, obj, self]; self gains the
\* attribute new_class
SubFilled(r, self, other) ==
  IF r.err # "none" THEN [err |-> r.err, obj |-> NoObj, self |-> self]
  ELSE IF self.nested \/ other.nested
  THEN [err |-> "TypeError", obj |-> NoObj,
        self |-> [self EXCEPT !.has_new_class = TRUE]]
  ELSE IF FilledLen(self) > 1 \/ FilledLen(other) > 1
  THEN [err |-> "none",
        obj |-> [Shaped(r.obj, self) EXCEPT !.filled =
                   [k \in 1..Min2(FilledLen(self), FilledLen(other)) |->
                      SetXor(self.filled[k], other.filled[k])]],
        self |-> [self EXCEPT !.has_new_class = TRUE]]
  ELSE [err |-> "none",
        obj |-> [Shaped(r.obj, self) EXCEPT !.filled =
                   <<SubRow(SetXor(self.filled[1], other.filled[1]), self)>>],
        self |-> [self EXCEPT !.has_new_class = TRUE]]

\* self - other
sub(self, other) ==
  SubFilled(create_class(self.t_start, self.t_stop, self.binsize,
                         self.matrix_rows, self.matrix_columns),
            self, other)

isub(self, other) == MissingSet(sub(self, other), self)

\* ------------------------------------------------------- replacing filled
\* a faulty np.unique, which leaves the row as it is
Unique_asis(row) == row

\* np.unique of one row: its values, each once, in increasing order
Unique(row) == SortedSeq(Range(row))

\* self.filled = f
set_filled(self, f) == [self EXCEPT !.filled = f, !.replaced = TRUE]

\* prune(): self
prune(self) ==
  IF Len(self.filled) > 1
  THEN set_filled(self, [k \in 1..Len(self.filled) |-> Unique(self.filled[k])])
  ELSE set_filled(self, <<Unique(Flatten(self.filled))>>)

\* -------------------------------------------------------------------- edges
\* np.linspace(start, stop, num, endpoint=endpoint) for num samples, num > 1
\* or endpoint false: the samples as rationals <<num, den>>
linspace(start, stop, num, endpoint) ==
  LET div == IF endpoint THEN num - 1 ELSE num
  IN [k \in 1..num |-> <<start * div + (k - 1) * (stop - start), div>>]

edges(self) == linspace(self.t_start, self.t_stop, self.num_bins + 1, TRUE)

left_edges(self) == linspace(self.t_start, self.t_stop, self.num_bins, FALSE)

\* self.left_edges + self.binsize
right_edges(self) ==
  [k \in 1..Len(left_edges(self)) |->
     <<left_edges(self)[k][1] * self.binsize[2]
         + self.binsize[1] * left_edges(self)[k][2],
       left_edges(self)[k][2] * self.binsize[2]>>]

\* self.left_edges + self.binsize/2
center_edges(self) ==
  [k \in 1..Len(left_edges(self)) |->
     <<2 * left_edges(self)[k][1] * self.binsize[2]
         + self.binsize[1] * left_edges(self)[k][2],
       2 * left_edges(self)[k][2] * self.binsize[2]>>]

\* ------------------------------------------------------------ transactions
\* an element of the list given to transactions: a train (id is None) or a
\* pair (Train_ID, SpikeTrain)
Elem(id, st) == [id |-> id, st |-> st]

\* conditions.signals_same_tstart(trains): the t_start of the trains if it
\* is the same for all of them, an error otherwise: [err, val]
signals_same_tstart(trains) ==
  IF \A i, j \in 1..Len(trains) : trains[i].t_start = trains[j].t_start
  THEN [err |-> "none", val |-> trains[1].t_start]
  ELSE [err |-> "ValueError", val |-> 0]

\* conditions.signals_same_tstop(trains): [err, val]
signals_same_tstop(trains) ==
  IF \A i, j \in 1..Len(trains) : trains[i].t_stop = trains[j].t_stop
  THEN [err |-> "none", val |-> trains[1].t_stop]
  ELSE [err |-> "ValueError", val |-> 0]

RECURSIVE Transaction_perspike(_, _, _, _)
\* a faulty transaction, which holds the id of a train once for every spike
\* of the train in the bin
Transaction_perspike(ids, filled, bin_id, k) ==
  IF k > Len(ids) \/ k > Len(filled) THEN << >>
  ELSE [j \in 1..Cardinality({i \in 1..Len(filled[k]) : filled[k][i] = bin_id})
          |-> ids[k]]
       \o Transaction_perspike(ids, filled, bin_id, k + 1)

RECURSIVE Transaction(_, _, _, _)
\* [train_id for train_id, b in zip(ids, filled) if bin_id in b], from
\* position k on
Transaction(ids, filled, bin_id, k) ==
  IF k > Len(ids) \/ k > Len(filled) THEN << >>
  ELSE IF bin_id \in {filled[k][j] : j \in 1..Len(filled[k])}
  THEN <<ids[k]>> \o Transaction(ids, filled, bin_id, k + 1)
  ELSE Transaction(ids, filled, bin_id, k + 1)

\* transactions once the constructor returned r: [err, ids, ret, binned]
Transacted(r, ids) ==
  IF r.err # "none"
  THEN [err |-> r.err, ids |-> ids, ret |-> << >>, binned |-> NoObj]
  ELSE [err |-> "none", ids |-> ids,
        ret |-> [b \in 1..r.obj.num_bins |->
                   Transaction(ids, r.obj.filled, b - 1, 1)],
        binned |-> r.obj]

\* transactions raised the error e
TransactionsRaised(e) ==
  [err |-> e, ids |-> << >>, ret |-> << >>, binned |-> NoObj]

\* transactions from the choice of the starting time on
TransactionsFrom(trains, binsize, t_start, t_stop, ids) ==
  IF IsNone(t_start) /\ signals_same_tstart(trains).err # "none"
  THEN TransactionsRaised(signals_same_tstart(trains).err)
  ELSE IF ~IsNone(t_start) /\ t_start[1] < max_tstart(trains)
  THEN TransactionsRaised("ValueError")
  ELSE IF IsNone(t_stop) /\ signals_same_tstop(trains).err # "none"
  THEN TransactionsRaised(signals_same_tstop(trains).err)
  ELSE IF ~IsNone(t_stop) /\ t_stop[1] > min_tstop(trains)
  THEN TransactionsRaised("ValueError")
  ELSE Transacted(
         binned_st(trains, binsize, None,
                   IF IsNone(t_start)
                   THEN Some(signals_same_tstart(trains).val) ELSE t_start,
                   IF IsNone(t_stop)
                   THEN Some(signals_same_tstop(trains).val) ELSE t_stop,
                   FALSE),
         ids)

\* transactions(spiketrains, binsize, t_start, t_stop, ids): ids is << >>
\* for the default
transactions(spiketrains, binsize, t_start, t_stop, ids) ==
  LET trains == [k \in 1..Len(spiketrains) |-> spiketrains[k].st]
  IN IF \A k \in 1..Len(spiketrains) : ~IsNone(spiketrains[k].id)
     THEN IF Len(spiketrains) = 0 THEN TransactionsRaised("ValueError")
          ELSE TransactionsFrom(trains, binsize, t_start, t_stop,
                                [k \in 1..Len(spiketrains) |->
                                   spiketrains[k].id[1]])
     ELSE IF \A k \in 1..Len(spiketrains) : IsNone(spiketrains[k].id)
     THEN TransactionsFrom(trains, binsize, t_start, t_stop,
                           IF ids = << >>
                           THEN [k \in 1..Len(spiketrains) |-> k - 1]
                           ELSE ids)
     ELSE TransactionsRaised("TypeError")

\* ------------------------------------------------------------ binned2train
\* a time that is no whole number of ticks is a rational <<num, den>>, den > 0

\* twice the shift of binned2train, as a fraction of the bin size
Shift2(align) ==
  IF align = "center" THEN 1 ELSE IF align = "right" THEN 2 ELSE 0

RECURSIVE Where(_, _)
\* np.where(np.array(x) > 0)[0] from position k on: the positions, counted
\* from 0, of the elements of x above 0
Where(x, k) ==
  IF k > Len(x) THEN << >>
  ELSE IF x[k] > 0 THEN <<k - 1>> \o Where(x, k + 1)
  ELSE Where(x, k + 1)

\* (position + shift) * width
ScaledTime(pos, align, width) ==
  <<(2 * pos + Shift2(align)) * width[1], 2 * width[2]>>

\* neo.SpikeTrain accepts the time t between t_start and t_stop
InTrainRange(t, t_start, t_stop) ==
  /\ t_start[1] * t[2] <= t[1] * t_start[2]
  /\ t[1] * t_stop[2] <= t_stop[1] * t[2]

\* neo.SpikeTrain(times, t_start=start, t_stop=stop): [err, ret]
SpikeTrainMade(times, start, stop) ==
  IF \A k \in 1..Len(times) : InTrainRange(times[k], start, stop)
  THEN [err |-> "none",
        ret |-> [t_start |-> start, t_stop |-> stop, times |-> times]]
  ELSE [err |-> "ValueError",
        ret |-> [t_start |-> start, t_stop |-> stop, times |-> << >>]]

\* binned2train from the chosen start on
Binned2TrainFrom(x, width, align, start, stop) ==
  SpikeTrainMade([k \in 1..Len(Where(x, 1)) |->
                    ScaledTime(Where(x, 1)[k], align, width)],
                 start,
                 IF IsNone(stop)
                 THEN <<start[1] * width[2] + Len(x) * width[1] * start[2],
                        start[2] * width[2]>>
                 ELSE <<stop[1], 1>>)

\* binned2train(x, width, align, start=..., stop=...) for a width above 0:
\* start and stop are None when the call does not give them
binned2train(x, width, align, start, stop) ==
  Binned2TrainFrom(x, width, align,
                   IF IsNone(start) THEN <<0, 1>> ELSE <<start[1], 1>>, stop)

\* ------------------------------------------------------------------- inputs
Times == -1..MaxTime

RECURSIVE SortedSeqs(_, _, _)
\* the nondecreasing sequences over lo..hi of length at most n
SortedSeqs(lo, hi, n) ==
  IF n = 0 THEN {<< >>}
  ELSE {<< >>} \cup
       UNION {{<<t>> \o rest : rest \in SortedSeqs(t, hi, n - 1)} : t \in lo..hi}

\* a neo.SpikeTrain: its spike times lie in [t_start, t_stop]
SpikeTrains(n) ==
  UNION {{[t_start |-> s, t_stop |-> e, times |-> ts] :
            ts \in SortedSeqs(s, e, n)} :
         <<s, e>> \in {w \in Times \X Times : w[1] < w[2]}}

\* a second train, made with neo's default t_start of 0: no spike, or one
\* spike at time 1
SecondTrains ==
  {st \in SpikeTrains(1) : st.t_start = 0 /\ st.times \in {<< >>, <<1>>}}

\* one train, or two trains of at most one spike each
SpikeTrainLists ==
  {<<st>> : st \in SpikeTrains(MaxSpikes)}
    \cup {<<s1, s2>> : s1 \in SpikeTrains(1), s2 \in SecondTrains}

OptTimes == {None} \cup {Some(t) : t \in Times}
OptBinsizes == {None} \cup {<<b, 1>> : b \in -1..MaxBinsize}
OptNumBins == {None, NonInt} \cup {Some(n) : n \in 0..(MaxTime + 1)}

Input(spiketrains, binsize, num_bins, t_start, t_stop) ==
  [spiketrains |-> spiketrains, binsize |-> binsize, num_bins |-> num_bins,
   t_start |-> t_start, t_stop |-> t_stop]

\* the docstrings' trains, in ticks of 0.1 s: a and b, valid on [0 s, 10 s]
TrainA ==
  [t_start |-> 0, t_stop |-> 100, times |-> <<5, 7, 12, 31, 43, 55, 67>>]
TrainB ==
  [t_start |-> 0, t_stop |-> 100, times |-> <<1, 7, 12, 22, 43, 55, 80>>]

\* binned_st(a, num_bins=10, binsize=1 * pq.s, t_start=0 * pq.s)
ScenarioA == Input(<<TrainA>>, <<10, 1>>, Some(10), Some(0), None)
\* binned_st(b, binsize=pq.s, t_start=0 * pq.s, t_stop=10. * pq.s)
ScenarioB == Input(<<TrainB>>, <<10, 1>>, None, Some(0), Some(100))

ScenarioInputs == {ScenarioA, ScenarioB}

\* the instances the operations after the construction are explored from:
\* those of the docstrings, and those that end at MaxTime, of one train on
\* [-1, MaxTime] or of two trains on [-1, MaxTime] and [0, MaxTime], with a
\* bin size in whole ticks or at most one spike
InSession(self) ==
  /\ self.exists
  /\ \/ self.lst_input \in {<<TrainA>>, <<TrainB>>}
     \/ /\ self.t_stop = MaxTime
        /\ self.lst_input[1].t_start = -1
        /\ \A k \in 1..Len(self.lst_input) : self.lst_input[k].t_stop = MaxTime
        /\ self.binsize[2] = 1 \/ Len(Flatten(self.filled)) <= 1

\* the lists assigned to filled: in every row the first bin, or the last
NewFilled(self) ==
  {[k \in 1..Len(self.filled) |-> <<v>>] : v \in {0, self.num_bins - 1}}

\* the second operands: one row or two
OperandInputs ==
  {ScenarioB}
    \cup {Input(<<[t_start |-> -1, t_stop |-> MaxTime, times |-> ts]>>,
                <<1, 1>>, None, Some(t0), Some(MaxTime)) :
            ts \in {<<0>>, <<0, 1>>}, t0 \in {-1, 0}}
    \cup {Input(<<[t_start |-> -1, t_stop |-> MaxTime, times |-> <<0>>],
                  [t_start |-> 0, t_stop |-> MaxTime, times |-> <<1>>]>>,
                <<1, 1>>, None, Some(0), Some(MaxTime))}


\* the lists of ids given to transactions: the default, fewer ids than
\* trains, one id for every train.  An id names one train.
IdLists == {<< >>, <<7>>, <<7, 8>>}

\* the lists of trains given to transactions: those that end at MaxTime
TransactionTrains ==
  {st \in SpikeTrainLists : \A k \in 1..Len(st) : st[k].t_stop = MaxTime}

\* the argument spiketrains of transactions: the trains st alone, pairs of
\* the ids and st (as many pairs as ids), or a pair followed by trains alone
TransactionArgs(st, ids, form) ==
  IF form = "trains" THEN [k \in 1..Len(st) |-> Elem(None, st[k])]
  ELSE IF form = "pairs"
  THEN [k \in 1..Min2(Len(st), Len(ids)) |-> Elem(Some(ids[k]), st[k])]
  ELSE [k \in 1..Len(st) |->
          Elem(IF k = 1 /\ Len(st) > 1 THEN Some(7) ELSE None, st[k])]

\* --------------------------------------------------------------- operations
Init ==
  /\ A = NoObj
  /\ B = NoObj
  /\ R = NoObj
  /\ call = [op |-> "none"]

\* the state after a constructor call that returned or raised r
Built(r, target, in) ==
  /\ IF target = "A" THEN A' = r.obj /\ B' = B ELSE B' = r.obj /\ A' = A
  /\ call' = [op |-> "binned_st", target |-> target, in |-> in, err |-> r.err]
  /\ R' = R

\* binned_st(**in)
Build(target, in) ==
  Built(binned_st(in.spiketrains, in.binsize, in.num_bins, in.t_start,
                  in.t_stop, FALSE),
        target, in)

\* A = binned_st(spiketrains, binsize, num_bins, t_start, t_stop)
ConstructA ==
  /\ call.op = "none"
  /\ \/ \E st \in SpikeTrainLists, bs \in OptBinsizes, nb \in OptNumBins,
           t0 \in OptTimes, t1 \in OptTimes :
          Build("A", Input(st, bs, nb, t0, t1))
     \/ \E in \in ScenarioInputs : Build("A", in)

\* B = binned_st(...), the second operand
ConstructB ==
  /\ InSession(A)
  /\ ~A.replaced
  /\ ~B.exists
  /\ \E in \in OperandInputs : Build("B", in)

\* the parameters of an accepted call without the parameter omit
Omit(in, omit) ==
  [t_start |-> IF omit = "t_start" THEN None ELSE in.t_start,
   t_stop |-> IF omit = "t_stop" THEN None ELSE in.t_stop,
   num_bins |-> IF omit = "num_bins" THEN None ELSE in.num_bins,
   binsize |-> IF omit = "binsize" THEN None ELSE in.binsize,
   matrix_columns |-> IF omit = "num_bins" THEN None ELSE in.num_bins]

Resolved(r, omit) ==
  /\ call' = [op |-> "check_init_params", omit |-> omit, orig |-> call.in,
              err |-> r.err, resolved |-> r.self]
  /\ UNCHANGED <<A, B, R>>

ResolveOmitted(self, omit) ==
  Resolved(check_init_params(self, self.binsize, self.num_bins, self.t_start,
                             self.t_stop),
           omit)

\* __check_init_params alone, on the parameters of an accepted call that
\* gave all four, with one parameter left out
CheckInitParams ==
  /\ call.op = "binned_st"
  /\ call.target = "A"
  /\ call.err = "none"
  /\ ~IsNone(call.in.binsize) /\ ~IsNone(call.in.num_bins)
  /\ ~IsNone(call.in.t_start) /\ ~IsNone(call.in.t_stop)
  /\ \E omit \in {"t_start", "t_stop", "num_bins", "binsize"} :
       ResolveOmitted(Omit(call.in, omit), omit)

MatrixReturned(r, op, kw) ==
  /\ A' = r.self
  /\ call' = [op |-> op, kw |-> kw, before |-> A, err |-> r.err, ret |-> r.ret]
  /\ UNCHANGED <<B, R>>

\* after filled was replaced, the one call that follows is explored
NextAfterReplacement == A.replaced => call.op \in {"prune", "filled"}

\* A.matrix_clipped(**kwargs)
MatrixClipped ==
  /\ InSession(A)
  /\ ~B.exists
  /\ NextAfterReplacement
  /\ \E kw \in {None, Some(TRUE), Some(FALSE)} :
       MatrixReturned(matrix_clipped(A, kw), "matrix_clipped", kw)

\* A.matrix_unclipped(**kwargs)
MatrixUnclipped ==
  /\ InSession(A)
  /\ ~B.exists
  /\ NextAfterReplacement
  /\ \E kw \in {None, Some(TRUE), Some(FALSE)} :
       MatrixReturned(matrix_unclipped(A, kw), "matrix_unclipped", kw)

\* a matrix of self is stored
Cached(self) == ~IsNone(self.mat_c) \/ ~IsNone(self.mat_u)

\* A.prune(), explored on the instances that hold a stored matrix
Prune ==
  /\ InSession(A)
  /\ ~B.exists
  /\ Cached(A)
  /\ ~A.replaced
  /\ A' = prune(A)
  /\ call' = [op |-> "prune", before |-> A]
  /\ UNCHANGED <<B, R>>

\* A.filled = f, explored on the instances that hold a stored matrix
SetFilled ==
  /\ InSession(A)
  /\ ~B.exists
  /\ Cached(A)
  /\ ~A.replaced
  /\ \E f \in NewFilled(A) :
       /\ A' = set_filled(A, f)
       /\ call' = [op |-> "filled", before |-> A, f |-> f]
  /\ UNCHANGED <<B, R>>

Added(r, op) ==
  /\ R' = r.obj
  /\ call' = [op |-> op, err |-> r.err]
  /\ UNCHANGED <<A, B>>

Subtracted(r, op) ==
  /\ R' = r.obj
  /\ A' = r.self
  /\ call' = [op |-> op, err |-> r.err]
  /\ UNCHANGED B

\* R = A + B
Add ==
  /\ InSession(A) /\ B.exists /\ ~R.exists
  /\ call.op \notin {"__add__", "__iadd__", "__sub__", "__isub__"}
  /\ Added(add(A, B), "__add__")

\* R = A; R += B
IAdd ==
  /\ InSession(A) /\ B.exists /\ ~R.exists
  /\ call.op \notin {"__add__", "__iadd__", "__sub__", "__isub__"}
  /\ Added(iadd(A, B), "__iadd__")

\* R = A - B
Sub ==
  /\ InSession(A) /\ B.exists /\ ~R.exists
  /\ call.op \notin {"__add__", "__iadd__", "__sub__", "__isub__"}
  /\ Subtracted(sub(A, B), "__sub__")

\* R = A; R -= B
ISub ==
  /\ InSession(A) /\ B.exists /\ ~R.exists
  /\ call.op \notin {"__add__", "__iadd__", "__sub__", "__isub__"}
  /\ Subtracted(isub(A, B), "__isub__")

\* the state after a call of transactions that returned or raised r
TransactionsReturned(r) ==
  /\ call' = [op |-> "transactions", err |-> r.err, ids |-> r.ids,
              ret |-> r.ret, binned |-> r.binned]
  /\ UNCHANGED <<A, B, R>>

\* transactions(spiketrains, binsize, t_start, t_stop, ids)
Transactions ==
  /\ call.op = "none"
  /\ \E st \in TransactionTrains, ids \in IdLists,
        form \in {"trains", "pairs", "mixed"},
        bs \in {<<b, 1>> : b \in 1..MaxBinsize},
        t0 \in OptTimes, t1 \in OptTimes :
       TransactionsReturned(
         transactions(TransactionArgs(st, ids, form), bs, t0, t1, ids))

\* the state after a call of binned2train that returned or raised r
Binned2TrainReturned(r, x, align, start, stop) ==
  /\ call' = [op |-> "binned2train", x |-> x, align |-> align,
              start |-> start, stop |-> stop, err |-> r.err, ret |-> r.ret]
  /\ UNCHANGED <<A, B, R>>

\* binned2train(x, A.binsize, align, ...) on a row x of the matrix m
Binned2TrainOn(m) ==
  /\ m.err = "none"
  /\ \E i \in 1..Len(m.ret[1]), align \in {"left", "center", "right"},
        start \in {None, Some(A.t_start)}, stop \in {None, Some(A.t_stop)} :
       Binned2TrainReturned(
         binned2train(m.ret[1][i], A.binsize, align, start, stop),
         m.ret[1][i], align, start, stop)

\* binned2train on a row of the clipped matrix of A, after the construction
Binned2Train ==
  /\ call.op = "binned_st"
  /\ call.target = "A"
  /\ InSession(A)
  /\ Binned2TrainOn(matrix_clipped(A, Some(FALSE)))

\* A.edges, A.left_edges, A.right_edges and A.center_edges, read after the
\* construction
Edges ==
  /\ call.op = "binned_st"
  /\ call.target = "A"
  /\ A.exists
  /\ call' = [op |-> "edges", edges |-> edges(A),
              left_edges |-> left_edges(A), right_edges |-> right_edges(A),
              center_edges |-> center_edges(A)]
  /\ UNCHANGED <<A, B, R>>

Next ==
  \/ ConstructA
  \/ ConstructB
  \/ CheckInitParams
  \/ MatrixClipped
  \/ MatrixUnclipped
  \/ Prune
  \/ SetFilled
  \/ Add
  \/ IAdd
  \/ Sub
  \/ ISub
  \/ Transactions
  \/ Binned2Train
  \/ Edges

Spec == Init /\ [][Next]_vars

\* --------------------------------------------------------------- properties
\* the floor of the real x / binsize, binsize a rational other than 0
Floor(x, binsize) ==
  IF binsize[1] > 0 THEN (x * binsize[2]) \div binsize[1]
  ELSE (-(x * binsize[2])) \div (-binsize[1])

\* o was constructed and its filled never assigned since
Constructed(o) == o.exists /\ ~o.replaced

\* the instance the last constructor call was to build
Target == IF call.target = "A" THEN A ELSE B

\* C1: after a successful construction, every index stored in every row of
\* filled lies in [0, bin_count).
C1_IndicesInRange ==
  \A o \in {A, B} :
    Constructed(o) =>
      \A i \in 1..Len(o.filled) :
        \A k \in 1..Len(o.filled[i]) :
          0 <= o.filled[i][k] /\ o.filled[i][k] < o.num_bins

\* floor((t - start) / bin_width)
FloorIndex(t, t_start, binsize) == Floor(t - t_start, binsize)

\* the floor indices below num_bins of the times, duplicates kept
FloorRow(times, t_start, binsize, num_bins) ==
  SelectSeq([k \in 1..Len(times) |-> FloorIndex(times[k], t_start, binsize)],
            LAMBDA idx : idx < num_bins)

\* C2: filled has one row per input train, and the row of a train holds
\* floor((t - start) / bin_width) for exactly the timestamps t of the train
\* whose index is below bin_count, duplicates kept.
C2_FloorIndices ==
  \A o \in {A, B} :
    Constructed(o) =>
      /\ Len(o.filled) = Len(o.lst_input)
      /\ \A i \in 1..Len(o.lst_input) :
           o.filled[i] = FloorRow(o.lst_input[i].times, o.t_start, o.binsize,
                                  o.num_bins)

\* the sequence s without its elements equal to v
Without(s, v) == SelectSeq(s, LAMBDA x : x # v)

\* the number of elements of s equal to v
Count(s, v) == Cardinality({k \in 1..Len(s) : s[k] = v})

\* C3: in a constructed representation the events at stop contribute no
\* index (the rows are those of the trains without their events at stop),
\* and every event at start contributes the index 0.
C3_Boundary ==
  \A o \in {A, B} :
    Constructed(o) =>
      \A i \in 1..Len(o.lst_input) :
        LET times == o.lst_input[i].times
        IN /\ o.filled[i] = BinRow(Without(times, o.t_stop), o.t_start,
                                   o.binsize, o.num_bins)
           /\ Count(o.filled[i], 0) >= Count(times, o.t_start)
           /\ \A k \in 1..Len(times) :
                times[k] = o.t_start =>
                  BinIndex(times[k], o.t_start, o.binsize) = 0

\* a train with an event at start and an event at stop was binned: only the
\* event at start left an index
C3_Witness ==
  /\ Constructed(A)
  /\ Len(A.lst_input) = 1
  /\ A.lst_input[1].times = <<A.t_start, A.t_stop>>
  /\ A.filled = <<<<0>>>>

\* the window of o lies in the interval of every train of inputs
Covered(o, inputs) ==
  max_tstart(inputs) <= o.t_start /\ o.t_stop <= min_tstop(inputs)

\* the invariant of the resolved parameters of o
ResolvedOK(o) ==
  /\ o.binsize[1] > 0 /\ o.binsize[2] > 0
  /\ o.num_bins = Floor(o.t_stop - o.t_start, o.binsize)
  /\ o.t_start < o.t_stop
  /\ o.num_bins >= 1
  /\ Covered(o, o.lst_input)

\* C4: after a successful construction, and after + - += -= on constructed
\* instances, bin_count = floor((stop - start) / bin_width), bin_width > 0,
\* start < stop, bin_count >= 1, and every input covers the window.
C4_ResolvedParameters ==
  /\ A.exists => ResolvedOK(A)
  /\ B.exists => ResolvedOK(B)
  /\ R.exists => ResolvedOK(R) /\ Covered(R, A.lst_input)

\* -= returned an instance
C4_Witness ==
  /\ A.exists /\ B.exists /\ R.exists
  /\ call.op = "__isub__"
  /\ R.num_bins > 1

\* C5: with stop omitted and start, bin_count and bin_width given, the
\* constructed representation has stop = start + bin_count * bin_width; with
\* start omitted and the other three given it has
\* start = stop - bin_count * bin_width; the given parameters keep their
\* values.
C5_DerivedStartStop ==
  (call.op = "binned_st" /\ call.err = "none") =>
    LET in == call.in
        o == Target
    IN /\ ( /\ IsNone(in.t_stop) /\ ~IsNone(in.t_start)
            /\ ~IsNone(in.num_bins) /\ ~IsNone(in.binsize) ) =>
            /\ o.t_stop = in.t_start[1] + in.num_bins[1] * in.binsize[1]
            /\ o.t_start = in.t_start[1]
            /\ o.num_bins = in.num_bins[1]
            /\ o.binsize = in.binsize
       /\ ( /\ IsNone(in.t_start) /\ ~IsNone(in.t_stop)
            /\ ~IsNone(in.num_bins) /\ ~IsNone(in.binsize) ) =>
            /\ o.t_start = in.t_stop[1] - in.num_bins[1] * in.binsize[1]
            /\ o.t_stop = in.t_stop[1]
            /\ o.num_bins = in.num_bins[1]
            /\ o.binsize = in.binsize

Params == {"t_start", "t_stop", "num_bins", "binsize"}

\* two bin sizes are the same rational
SameBinsize(x, y) ==
  Len(x) = 2 /\ Len(y) = 2 /\ x[2] # 0 /\ y[2] # 0 /\ x[1] * y[2] = y[1] * x[2]

\* the parameter p has the same value in the parameter sets x and y
SameParam(p, x, y) ==
  IF p = "binsize" THEN SameBinsize(x.binsize, y.binsize) ELSE x[p] = y[p]

\* every parameter derived again from the three others of the set s
Rederived(s) ==
  [t_start |-> calc_tstart(s.num_bins, s.binsize, s.t_stop),
   t_stop |-> calc_tstop(s.num_bins, s.binsize, s.t_start),
   num_bins |-> calc_num_bins(s.binsize, s.t_start, s.t_stop).val,
   binsize |-> calc_binsize(s.num_bins, s.t_start, s.t_stop).val]

\* stop - start is bin_count bins exactly
Exact(in) ==
  in.t_stop[1] - in.t_start[1] = in.num_bins[1] * in.binsize[1]

C7_InsufficientExactly ==
  call.op = "binned_st" =>
    LET in == call.in
    IN /\ (call.err = "InsufficientParametersError")
            <=> (IsNone(in.binsize) /\ IsNone(in.num_bins))
       /\ ( /\ call.err = "none"
            /\ IsNone(in.t_start)
            /\ IsNone(in.binsize) # IsNone(in.num_bins) ) =>
            /\ Target.t_start = max_tstart(in.spiketrains)
            /\ Target.t_stop = IF IsNone(in.t_stop)
                               THEN min_tstop(in.spiketrains)
                               ELSE in.t_stop[1]

\* all four parameters are given, bin_count an integer, bin_width not 0
AllGiven(in) ==
  /\ ~IsNone(in.t_start) /\ ~IsNone(in.t_stop)
  /\ IsInt(in.num_bins)
  /\ ~IsNone(in.binsize) /\ in.binsize[1] # 0

\* the rules 1 to 7 of the validator that the given quadruple breaks
Violated(in) ==
  LET lo == max_tstart(in.spiketrains)
      hi == min_tstop(in.spiketrains)
      t0 == in.t_start[1]
      t1 == in.t_stop[1]
      nb == in.num_bins[1]
  IN {k \in 1..7 :
        \/ k = 1 /\ ~(lo < hi)
        \/ k = 2 /\ ~(lo <= t0 /\ t0 <= hi)
        \/ k = 3 /\ nb # Floor(t1 - t0, in.binsize)
        \/ k = 4 /\ ~(t0 < t1 /\ t1 <= hi)
        \/ k = 5 /\ nb < 0
        \/ k = 6 /\ ~(t1 <= hi /\ t1 >= lo)
        \/ k = 7 /\ nb < 1}

\* the error of each rule
RuleError ==
  <<"DisjointIntervalsError", "StartOutOfRangeError",
    "InconsistentParametersError", "StopTooLargeError",
    "NonIntegerBinCountError", "StopOutOfRangeError", "EmptyRangeError">>

\* C8: when the given quadruple breaks several of the rules 1 to 7, the
\* error raised is that of the lowest-numbered rule it breaks.
C8_RuleOrder ==
  ( /\ call.op = "binned_st"
    /\ AllGiven(call.in)
    /\ Cardinality(Violated(call.in)) >= 2 ) =>
    call.err = RuleError[CHOOSE k \in Violated(call.in) :
                           \A j \in Violated(call.in) : k <= j]

\* C9: with all four parameters given, overlapping input intervals and
\* start within them, a bin_count other than
\* floor((stop - start) / bin_width) makes the construction fail with
\* InconsistentParametersError, and no instance is produced.
C9_Inconsistent ==
  ( /\ call.op = "binned_st"
    /\ AllGiven(call.in)
    /\ 1 \notin Violated(call.in)
    /\ 2 \notin Violated(call.in)
    /\ 3 \in Violated(call.in) ) =>
    call.err = "InconsistentParametersError" /\ ~Target.exists

\* C10: the train with events [0.5, 0.7, 1.2, 3.1, 4.3, 5.5, 6.7] s on
\* [0 s, 10 s], binned with start 0 s, bin_width 1 s and bin_count 10, has
\* filled [0,0,1,3,4,5,6], the clipped row [1,1,0,1,1,1,1,0,0,0] and the
\* unclipped row [2,1,0,1,1,1,1,0,0,0].
C10_Scenario ==
  (Constructed(A) /\ A.lst_input = ScenarioA.spiketrains) =>
    /\ A.filled = <<<<0, 0, 1, 3, 4, 5, 6>>>>
    /\ call.op = "matrix_clipped" =>
         /\ call.err = "none"
         /\ call.ret = Some(<<<<1, 1, 0, 1, 1, 1, 1, 0, 0, 0>>>>)
    /\ call.op = "matrix_unclipped" =>
         /\ call.err = "none"
         /\ call.ret = Some(<<<<2, 1, 0, 1, 1, 1, 1, 0, 0, 0>>>>)

\* both matrices of the scenario were computed: the clipped one is stored,
\* the unclipped one was just returned
C10_Witness ==
  /\ Constructed(A) /\ A.lst_input = ScenarioA.spiketrains
  /\ A.mat_c = Some(<<<<1, 1, 0, 1, 1, 1, 1, 0, 0, 0>>>>)
  /\ call.op = "matrix_unclipped"
  /\ call.ret = Some(<<<<2, 1, 0, 1, 1, 1, 1, 0, 0, 0>>>>)

\* the clipped matrix of self: cell (r, c) is 1 iff column c occurs in row r
ClippedOf(self) ==
  [r \in 1..self.matrix_rows |->
     [c \in 1..self.num_bins |->
        IF Count(self.filled[r], c - 1) > 0 THEN 1 ELSE 0]]

\* the unclipped matrix of self: cell (r, c) counts column c in row r
UnclippedOf(self) ==
  [r \in 1..self.matrix_rows |->
     [c \in 1..self.num_bins |-> Count(self.filled[r], c - 1)]]

\* C11: the first cached call (store_mat=True) of matrix_clipped returns
\* what an on-demand call (store_mat=False) returns on the same fresh
\* instance, and likewise for matrix_unclipped.
C11_PoliciesAgree ==
  /\ ( /\ call.op = "matrix_clipped"
       /\ call.kw = Some(TRUE)
       /\ IsNone(call.before.mat_c) ) =>
       /\ call.err = matrix_clipped(call.before, Some(FALSE)).err
       /\ call.ret = matrix_clipped(call.before, Some(FALSE)).ret
  /\ ( /\ call.op = "matrix_unclipped"
       /\ call.kw = Some(TRUE)
       /\ IsNone(call.before.mat_u) ) =>
       /\ call.err = matrix_unclipped(call.before, Some(FALSE)).err
       /\ call.ret = matrix_unclipped(call.before, Some(FALSE)).ret

\* C12: the on-demand clipped matrix of a constructed representation has
\* rows x bin_count cells, and cell (r, c) is 1 iff column c occurs in
\* filled[r], else 0.
C12_ClippedCells ==
  ( /\ call.op = "matrix_clipped"
    /\ Constructed(call.before)
    /\ IsNone(call.before.mat_c)
    /\ ~A.store_mat_c ) =>
    /\ call.err = "none"
    /\ call.ret = Some(ClippedOf(call.before))

\* C13: the unclipped matrix of a constructed representation, cached or
\* on demand, has rows x bin_count cells, and cell (r, c) is the number of
\* occurrences of c in filled[r], also for a row of one index.
C13_UnclippedCells ==
  ( /\ call.op = "matrix_unclipped"
    /\ Constructed(call.before)
    /\ IsNone(call.before.mat_u) ) =>
    /\ call.err = "none"
    /\ call.ret = Some(UnclippedOf(call.before))

\* C14: once filled is replaced (by prune() or by an assignment) on an
\* instance that holds a stored matrix, the next call of matrix_clipped or
\* matrix_unclipped, cached or with store_mat=False, returns the matrix of
\* the new filled.
C14_Replacement ==
  /\ ( /\ call.op = "matrix_clipped"
       /\ call.before.replaced
       /\ ~IsNone(call.before.mat_c) ) =>
       call.ret = Some(ClippedOf(call.before))
  /\ ( /\ call.op = "matrix_unclipped"
       /\ call.before.replaced
       /\ ~IsNone(call.before.mat_u) ) =>
       call.ret = Some(UnclippedOf(call.before))

\* C15: a materializer call that returned a matrix, followed by a call of
\* the same materializer in the same policy (filled not replaced between
\* them), returns the same matrix again: cached or on demand, clipped or
\* unclipped.
C15_Idempotent ==
  /\ (call.op = "matrix_clipped" /\ call.err = "none") =>
       \A kw \in {None, Some(A.store_mat_c)} :
         /\ matrix_clipped(A, kw).err = "none"
         /\ matrix_clipped(A, kw).ret = call.ret
  /\ (call.op = "matrix_unclipped" /\ call.err = "none") =>
       \A kw \in {None, Some(A.store_mat_u)} :
         /\ matrix_unclipped(A, kw).err = "none"
         /\ matrix_unclipped(A, kw).ret = call.ret

\* a cached call of matrix_unclipped returned the counts of a row with a
\* duplicate, and stored them
C15_Witness ==
  /\ call.op = "matrix_unclipped"
  /\ call.err = "none"
  /\ A.store_mat_u
  /\ A.mat_u = call.ret
  /\ \E c \in 1..A.num_bins : call.ret[1][1][c] = 2

\* some row of self.filled holds an index outside [0, bin_count)
OutOfRange(self) ==
  \E r \in 1..Len(self.filled) :
    \E k \in 1..Len(self.filled[r]) :
      self.filled[r][k] < 0 \/ self.filled[r][k] >= self.num_bins

\* C16: matrix_clipped and matrix_unclipped, in both policies, fail with
\* ColumnIndexError and return no matrix whenever a row of filled holds an
\* index outside [0, bin_count), negative indices included.
C16_ColumnIndexError ==
  ( /\ call.op \in {"matrix_clipped", "matrix_unclipped"}
    /\ OutOfRange(call.before) ) =>
    call.err = "ColumnIndexError" /\ IsNone(call.ret)

\* A and B have the same bin_count and the same number of rows
SameShape ==
  A.num_bins = B.num_bins /\ Len(A.filled) = Len(B.filled)

\* R has the start, stop, bin_width, bin_count and row count of A
ParametersOfA ==
  /\ R.t_start = A.t_start /\ R.t_stop = A.t_stop
  /\ R.binsize = A.binsize /\ R.num_bins = A.num_bins
  /\ R.matrix_rows = A.matrix_rows

\* C17: for A and B of the same bin_count and row count, A + B is a new
\* instance with the parameters and row count of A whose filled[r] is
\* A.filled[r] followed by B.filled[r], for every row r.
C17_AddRows ==
  (call.op = "__add__" /\ SameShape) =>
    /\ call.err = "none"
    /\ R.exists
    /\ ParametersOfA
    /\ ~R.nested
    /\ Len(R.filled) = Len(A.filled)
    /\ \A r \in 1..Len(A.filled) : R.filled[r] = A.filled[r] \o B.filled[r]

\* C18: A + B fails with ShapeMismatchError and returns no instance when
\* A and B differ in bin_count or in row count.
C18_ShapeMismatch ==
  (call.op = "__add__" /\ ~SameShape) =>
    call.err = "ShapeMismatchError" /\ ~R.exists

\* the set of the elements in exactly one of the rows a and b
Xor(a, b) == (Range(a) \ Range(b)) \cup (Range(b) \ Range(a))

\* C19: for A and B of equal shape, every row r of (A - B).filled holds
\* the elements in exactly one of A.filled[r], B.filled[r], each once.
C19_SymmetricDifference ==
  (call.op = "__sub__" /\ SameShape /\ call.err = "none") =>
    /\ Len(R.filled) = Len(A.filled)
    /\ \A r \in 1..Len(A.filled) :
         /\ Range(R.filled[r]) = Xor(A.filled[r], B.filled[r])
         /\ Len(R.filled[r]) = Cardinality(Xor(A.filled[r], B.filled[r]))

\* C20: where the symmetric difference of A.filled[r] and B.filled[r] is
\* empty, row r of (A - B).filled is the empty sequence, and row r of the
\* clipped matrix of A - B has no occupied bin.
C20_EmptyDifference ==
  (call.op = "__sub__" /\ SameShape /\ call.err = "none") =>
    \A r \in 1..Len(A.filled) :
      Xor(A.filled[r], B.filled[r]) = {} =>
        /\ R.filled[r] = << >>
        /\ matrix_clipped(R, Some(FALSE)).err = "none"
        /\ \A c \in 1..R.matrix_columns :
             matrix_clipped(R, Some(FALSE)).ret[1][r][c] = 0

\* (A - B) - B returned r2, and after prune() every row of its instance has
\* the indices of that row of A after prune()
BackToA(r2) ==
  /\ r2.err = "none"
  /\ Len(prune(r2.obj).filled) = Len(prune(A).filled)
  /\ \A r \in 1..Len(A.filled) :
       Range(prune(r2.obj).filled[r]) = Range(prune(A).filled[r])

\* C21: for A and B of equal shape, (A - B) - B after prune() has in every
\* row the index set of A after prune(), also when A and B hold the same
\* indices or a row of A is empty.
C21_TwiceSubtracted ==
  (call.op = "__sub__" /\ SameShape /\ call.err = "none") =>
    BackToA(sub(R, B))

\* the sequences s and t hold the same elements, each as often
SameBag(s, t) ==
  /\ Len(s) = Len(t)
  /\ \A k \in 1..Len(s) : Count(s, s[k]) = Count(t, s[k])

\* B + A returned ba, and every row of its filled is, as a multiset, that
\* row of the filled of A + B
Commutes(ba) ==
  /\ ba.err = "none"
  /\ Len(ba.obj.filled) = Len(R.filled)
  /\ \A r \in 1..Len(R.filled) : SameBag(R.filled[r], ba.obj.filled[r])

\* C22: for A and B of equal shape, of one row or several, every row of
\* (A + B).filled equals that row of (B + A).filled as a multiset.
C22_AddCommutes ==
  (call.op = "__add__" /\ SameShape /\ call.err = "none") =>
    Commutes(add(B, A))

\* the attributes of an operand that + - += -= are to leave as they are
Kept(o) ==
  <<o.filled, o.t_start, o.t_stop, o.binsize, o.num_bins, o.matrix_rows,
    o.matrix_columns, o.store_mat_c, o.store_mat_u, o.mat_c, o.mat_u>>

Operators == {"__add__", "__iadd__", "__sub__", "__isub__"}

C24_Transactions ==
  (call.op = "transactions" /\ call.err = "none") =>
    /\ Len(call.ret) = call.binned.num_bins
    /\ \A b \in 1..Len(call.ret) :
         /\ \A r \in 1..Min2(Len(call.ids), Len(call.binned.filled)) :
              (call.ids[r] \in Range(call.ret[b]))
                <=> (b - 1 \in Range(call.binned.filled[r]))
         /\ \A k \in 1..Len(call.ret[b]) :
              /\ Count(call.ret[b], call.ret[b][k]) = 1
              /\ call.ret[b][k] \in Range(call.ids)

\* transactions returned, for a train with two spikes in one bin, the id of
\* the train once in the transaction of that bin, and an empty transaction
\* for another bin
C24_Witness ==
  /\ call.op = "transactions"
  /\ call.err = "none"
  /\ \E b \in 1..Len(call.ret) :
       /\ Count(call.binned.filled[1], b - 1) = 2
       /\ call.ret[b] = <<call.ids[1]>>
  /\ \E b \in 1..Len(call.ret) : call.ret[b] = << >>

\* int(((t - t_start) / binsize).magnitude) for a time t = <<num, den>>
IndexOfTime(t, t_start, binsize) ==
  TruncDiv((t[1] - t_start * t[2]) * binsize[2], t[2] * binsize[1])

\* C25: binned2train(row, w, align='left', start=s) on a row of the clipped
\* matrix of a train binned with start s and width w returns one time for
\* every occupied bin, and each of these times, binned with s and w, has the
\* index of its bin.
C25_RoundTrip ==
  ( /\ call.op = "binned2train"
    /\ call.align = "left"
    /\ call.start = Some(A.t_start) ) =>
    /\ call.err = "none"
    /\ Len(call.ret.times) = Len(Where(call.x, 1))
    /\ \A k \in 1..Len(call.ret.times) :
         IndexOfTime(call.ret.times[k], A.t_start, A.binsize)
           = Where(call.x, 1)[k]

\* the sequence s is strictly increasing
Increasing(s) == \A i, j \in 1..Len(s) : i < j => s[i] < s[j]

\* C26: prune() leaves in every row of filled the distinct indices of the
\* row in increasing order, keeps the number of rows and the binning
\* parameters, and a second prune() changes nothing.
C26_Prune ==
  call.op = "prune" =>
    /\ Len(A.filled) = Len(call.before.filled)
    /\ \A r \in 1..Len(A.filled) :
         /\ Increasing(A.filled[r])
         /\ Range(A.filled[r]) = Range(call.before.filled[r])
    /\ prune(A).filled = A.filled
    /\ A.t_start = call.before.t_start /\ A.t_stop = call.before.t_stop
    /\ A.binsize = call.before.binsize /\ A.num_bins = call.before.num_bins
    /\ A.matrix_rows = call.before.matrix_rows
    /\ A.matrix_columns = call.before.matrix_columns

\* prune() removed an index that a row held twice
C26_Witness ==
  /\ call.op = "prune"
  /\ \E r \in 1..Len(A.filled) :
       /\ Len(A.filled[r]) >= 1
       /\ Len(A.filled[r]) < Len(call.before.filled[r])

\* the rationals x and y, of denominators above 0, in order
RatLe(x, y) == x[1] * y[2] <= y[1] * x[2]
RatLt(x, y) == x[1] * y[2] < y[1] * x[2]
RatEq(x, y) == x[1] * y[2] = y[1] * x[2]

\* the time t of a train got the index i, and lies in the bin i of the
\* edges e
InBin(t, i, e) ==
  /\ 0 <= i /\ i + 2 <= Len(e)
  /\ RatLe(e[i + 1], <<t, 1>>)
  /\ RatLt(<<t, 1>>, e[i + 2])

\* C27: in a constructed representation, also when stop - start is no
\* multiple of bin_width, every time t that got the index i lies in
\* [edges[i], edges[i+1]), with edges[i] = start + i * (stop - start) /
\* bin_count, and right_edges[i] is edges[i+1].
C27_EdgesAgree ==
  call.op = "edges" =>
    /\ Len(call.edges) = A.num_bins + 1
    /\ \A i \in 0..A.num_bins :
         RatEq(call.edges[i + 1],
               <<A.t_start * A.num_bins + i * (A.t_stop - A.t_start),
                 A.num_bins>>)
    /\ \A r \in 1..Len(A.lst_input) :
         \A k \in 1..Len(A.lst_input[r].times) :
           LET t == A.lst_input[r].times[k]
               i == BinIndex(t, A.t_start, A.binsize)
           IN KeepIndex(i, A.num_bins) => InBin(t, i, call.edges)
    /\ Len(call.right_edges) = A.num_bins
    /\ \A i \in 1..A.num_bins :
         RatEq(call.right_edges[i], call.edges[i + 1])

\* C28: a construction that is given a start and succeeds leaves that start
\* in the instance, whichever of the other parameters are given.
C28_StartKept ==
  (call.op = "binned_st" /\ call.err = "none" /\ ~IsNone(call.in.t_start)) =>
    Target.t_start = call.in.t_start[1]

\* C29: for constructed A and B of equal shape, whatever the start of A,
\* A + B and A - B raise nothing and return a new instance.
C29_OperatorsReturn ==
  (call.op \in {"__add__", "__sub__"} /\ SameShape) =>
    call.err = "none" /\ R.exists

\* C30: after a call of matrix_clipped or matrix_unclipped in the cached
\* policy failed with ColumnIndexError, no matrix is stored, and the next
\* call, on the same filled, fails with ColumnIndexError and returns no
\* matrix.
C30_FailedCallStoresNothing ==
  /\ ( /\ call.op = "matrix_clipped"
       /\ call.err = "ColumnIndexError"
       /\ A.store_mat_c ) =>
       /\ IsNone(A.mat_c)
       /\ matrix_clipped(A, None).err = "ColumnIndexError"
       /\ IsNone(matrix_clipped(A, None).ret)
  /\ ( /\ call.op = "matrix_unclipped"
       /\ call.err = "ColumnIndexError"
       /\ A.store_mat_u ) =>
       /\ IsNone(A.mat_u)
       /\ matrix_unclipped(A, None).err = "ColumnIndexError"
       /\ IsNone(matrix_unclipped(A, None).ret)
====
